---------------------------- MODULE Spec2Model ----------------------------
(***************************************************************************)
(* A model of regice-pmu: the PMU / PMUCounter / PerfEvent object graph of *)
(* regicepmu/pmu.py and regicepmu/perf.py.  The architecture hooks are the *)
(* ones of the test subclasses TestPMU and TestPMUCounter (an "en" flag    *)
(* that _enable sets, _disable clears and _enabled returns).               *)
(***************************************************************************)
EXTENDS Integers, Sequences, FiniteSets, TLC

(* ------------------------------ bounds --------------------------------- *)
\* number of counters registered on the PMU (pmu.counters, in scan order)
NCounters == 2
\* number of PerfEvents registered on the PMU
NPerf == 2
\* number of PMU.enable / PMU.disable calls a behaviour makes
MaxCalls == 7
\* number of PerfEvents held by the PMUs of the device
MaxEvents == 2

(* ------------------------- program constants --------------------------- *)
\* register.size: the width in bits of a counter's register
RegWidth == 1
\* event_id = None
None == -1
\* pmu.events: the schedulable events of the PMU
PmuEvents == {0}
\* the event ids callers pass: None, one in pmu.events, one absent from it
EventIds == {None, 0, 1}

Counters == 1 .. NCounters
PerfEvents == 1 .. NPerf
RegValues == 0 .. (2 ^ RegWidth - 1)

VARIABLES
    refcount,   \* PMU.refcount
    en,         \* TestPMU.en: the physical PMU is enabled
    counters,   \* pmu.counters: scan order -> the fields of a PMUCounter
    reg,        \* int(counter.register): the raw value of each register
    held,       \* per PerfEvent: enable() calls not yet matched by disable()
    balance,    \* enable(refcount=True) calls minus disable(refcount=True) calls
    spans,      \* number of times balance rose from 0 to 1
    enCount,    \* number of invocations of the hook PMU._enable
    disCount,   \* number of invocations of the hook PMU._disable
    calls,      \* number of PMU.enable / PMU.disable calls made so far
    op,         \* the last operation called and its arguments
    res,        \* what it returned or raised
    trace,      \* the hooks it invoked, in order
    streak,     \* allocations made since construction, -1 once a counter was freed
    snap,       \* allocated flags before the allocate_counter just made, or << >>
    perf_events, \* per PMU of the device, in scan order: pmu.perf_events
    events,     \* Perf.events of the Perf object last built over the device
    handles     \* per counter: times enable_event returned it, less disable_event calls on it

vars == <<refcount, en, counters, reg, held, balance, spans, enCount, disCount,
          calls, op, res, trace, streak, snap, perf_events, events, handles>>

pmuVars == <<refcount, en, held, balance, spans, enCount, disCount, calls>>
poolVars == <<counters, reg, streak, snap, handles>>
perfVars == <<perf_events, events>>

(* ------------------------- calls and results --------------------------- *)
Call(name, c, e, flag, p) ==
    [name |-> name, counter |-> c, event |-> e, refcount |-> flag, perf |-> p]

Returned(ret, c) == [exc |-> "none", ret |-> ret, counter |-> c]
Raised(exc) == [exc |-> exc, ret |-> "None", counter |-> 0]
\* a call that returned the integer n
ReturnedInt(n) == [exc |-> "none", ret |-> "int", counter |-> 0, value |-> n]

PyBool(b) == IF b THEN "True" ELSE "False"

(* ------------------------------ PMU ------------------------------------ *)
\* PMU.enable: the refcount after the call and whether self._enable() runs
PMU_enable_mutHook(rc, flag) ==
    LET r == IF flag THEN rc + 1 ELSE rc
    IN  [refcount |-> r, hook |-> (r >= 1 \/ flag = FALSE)]

PMU_enable(rc, flag) ==
    LET r == IF flag THEN rc + 1 ELSE rc
    IN  [refcount |-> r, hook |-> (r = 1 \/ flag = FALSE)]

\* PMU.disable: the refcount after the call and whether self._disable() runs
PMU_disable_mutHook(rc, flag) ==
    LET r == IF flag THEN rc - 1 ELSE rc
    IN  [refcount |-> r, hook |-> (r <= 1)]

PMU_disable(rc, flag) ==
    LET r == IF flag THEN rc - 1 ELSE rc
    IN  [refcount |-> r, hook |-> (r = 0)]

\* the effect of pmu.enable(refcount=flag) on the PMU, its hook being TestPMU._enable
DoPMUEnable(flag) ==
    LET r == PMU_enable(refcount, flag)
    IN  /\ calls < MaxCalls
        /\ calls' = calls + 1
        /\ refcount' = r.refcount
        /\ en' = IF r.hook THEN TRUE ELSE en
        /\ enCount' = IF r.hook THEN enCount + 1 ELSE enCount
        /\ disCount' = disCount
        /\ balance' = IF flag THEN balance + 1 ELSE balance
        /\ spans' = IF flag /\ balance = 0 THEN spans + 1 ELSE spans

\* the effect of pmu.disable(refcount=flag) on the PMU, its hook being TestPMU._disable
DoPMUDisable(flag) ==
    LET r == PMU_disable(refcount, flag)
    IN  /\ calls < MaxCalls
        /\ calls' = calls + 1
        /\ refcount' = r.refcount
        /\ en' = IF r.hook THEN FALSE ELSE en
        /\ disCount' = IF r.hook THEN disCount + 1 ELSE disCount
        /\ enCount' = enCount
        /\ balance' = IF flag THEN balance - 1 ELSE balance
        /\ spans' = spans

PMUEnableTrace(flag) ==
    IF PMU_enable(refcount, flag).hook THEN <<"PMU._enable">> ELSE << >>

PMUDisableTrace(flag) ==
    IF PMU_disable(refcount, flag).hook THEN <<"PMU._disable">> ELSE << >>

\* a caller calls pmu.enable(refcount=flag)
PMUEnable(flag) ==
    /\ DoPMUEnable(flag)
    /\ op' = Call("PMU.enable", 0, None, flag, 0)
    /\ res' = Returned("None", 0)
    /\ trace' = PMUEnableTrace(flag)
    /\ UNCHANGED <<held, poolVars, perfVars>>

\* a caller calls pmu.disable(refcount=flag)
PMUDisable(flag) ==
    /\ DoPMUDisable(flag)
    /\ op' = Call("PMU.disable", 0, None, flag, 0)
    /\ res' = Returned("None", 0)
    /\ trace' = PMUDisableTrace(flag)
    /\ UNCHANGED <<held, poolVars, perfVars>>

(* ---------------------------- PerfEvent -------------------------------- *)
\* PerfEvent.enable: self._enable() (a no-op here), then pmu.enable(refcount=True)
PerfEventEnable(p) ==
    /\ DoPMUEnable(TRUE)
    /\ held' = [held EXCEPT ![p] = @ + 1]
    /\ op' = Call("PerfEvent.enable", 0, None, TRUE, p)
    /\ res' = Returned("None", 0)
    /\ trace' = <<"PerfEvent._enable", "PMU.enable">> \o PMUEnableTrace(TRUE)
    /\ UNCHANGED <<poolVars, perfVars>>

\* PerfEvent.disable: pmu.disable(refcount=True), then self._disable() (a no-op here)
PerfEventDisable_mutOrder(p) ==
    /\ DoPMUDisable(TRUE)
    /\ held' = [held EXCEPT ![p] = @ - 1]
    /\ op' = Call("PerfEvent.disable", 0, None, TRUE, p)
    /\ res' = Returned("None", 0)
    /\ trace' = <<"PerfEvent._disable", "PMU.disable">> \o PMUDisableTrace(TRUE)
    /\ UNCHANGED <<poolVars, perfVars>>

PerfEventDisable(p) ==
    /\ DoPMUDisable(TRUE)
    /\ held' = [held EXCEPT ![p] = @ - 1]
    /\ op' = Call("PerfEvent.disable", 0, None, TRUE, p)
    /\ res' = Returned("None", 0)
    /\ trace' = <<"PMU.disable">> \o PMUDisableTrace(TRUE) \o <<"PerfEvent._disable">>
    /\ UNCHANGED <<poolVars, perfVars>>

(* ---------------------------- PMUCounter ------------------------------- *)
\* PMUCounter.set_event(event_id) on counter c; h is what the hook _set_event
\* returns (TestPMUCounter._set_event returns None, which is falsy)
PMUCounter_set_event_mutSupport(cs, c, e, h) ==
    IF cs[c].en
    THEN [counters |-> cs, ret |-> FALSE, hooks |-> << >>]
    ELSE IF e # None /\ e \notin PmuEvents
    THEN [counters |-> cs, ret |-> FALSE, hooks |-> << >>]
    ELSE [counters |-> [cs EXCEPT ![c].event_id = e], ret |-> h,
          hooks |-> <<"PMUCounter._set_event">>]

PMUCounter_set_event_mutRollback(cs, c, e, h) ==
    IF ~cs[c].support_event
    THEN [counters |-> cs, ret |-> FALSE, hooks |-> << >>]
    ELSE IF cs[c].en
    THEN [counters |-> cs, ret |-> FALSE, hooks |-> << >>]
    ELSE IF e # None /\ e \notin PmuEvents
    THEN [counters |-> cs, ret |-> FALSE, hooks |-> << >>]
    ELSE [counters |-> IF h THEN [cs EXCEPT ![c].event_id = e] ELSE cs, ret |-> h,
          hooks |-> <<"PMUCounter._set_event">>]

PMUCounter_set_event_mutEnabled(cs, c, e, h) ==
    IF ~cs[c].support_event
    THEN [counters |-> cs, ret |-> FALSE, hooks |-> << >>]
    ELSE IF e # None /\ e \notin PmuEvents
    THEN [counters |-> cs, ret |-> FALSE, hooks |-> << >>]
    ELSE [counters |-> [cs EXCEPT ![c].event_id = e], ret |-> h,
          hooks |-> <<"PMUCounter._set_event">>]

PMUCounter_set_event(cs, c, e, h) ==
    IF ~cs[c].support_event
    THEN [counters |-> cs, ret |-> FALSE, hooks |-> << >>]
    ELSE IF cs[c].en
    THEN [counters |-> cs, ret |-> FALSE, hooks |-> << >>]
    ELSE IF e # None /\ e \notin PmuEvents
    THEN [counters |-> cs, ret |-> FALSE, hooks |-> << >>]
    ELSE [counters |-> [cs EXCEPT ![c].event_id = e], ret |-> h,
          hooks |-> <<"PMUCounter._set_event">>]

\* PMUCounter.read_diff: the difference returned when self.value is last, the
\* register reads value and register.size is size
PMUCounter_read_diff_mutNoOverflow(last, value, size) == value - last

PMUCounter_read_diff(last, value, size) ==
    IF last > value
    THEN (value + 2 ^ size) - last
    ELSE value - last

\* PMUCounter.enable() on counter c; the hook is TestPMUCounter._enable
PMUCounter_enable_mutNoCheck(cs, rg, c) ==
    [counters |-> [cs EXCEPT ![c].value = rg[c], ![c].en = TRUE],
     ret |-> "None", hooks |-> <<"PMUCounter._enable">>]

PMUCounter_enable(cs, rg, c) ==
    IF cs[c].support_event /\ cs[c].event_id = None
    THEN [counters |-> cs, ret |-> "False", hooks |-> << >>]
    ELSE [counters |-> [cs EXCEPT ![c].value = rg[c], ![c].en = TRUE],
          ret |-> "None", hooks |-> <<"PMUCounter._enable">>]

\* PMUCounter.disable() on counter c; the hook is TestPMUCounter._disable
PMUCounter_disable(cs, c) == [cs EXCEPT ![c].en = FALSE]

(* --------------------------- the counter pool --------------------------- *)
\* PMU._alloc_counter: the scan of self.counters from position i on;
\* 0 stands for falling out of the loop (raise Exception)
RECURSIVE PMU_alloc_counter_mutAllocated(_, _)
PMU_alloc_counter_mutAllocated(cs, i) ==
    IF i > Len(cs) THEN 0
    ELSE IF cs[i].support_event THEN i
    ELSE PMU_alloc_counter_mutAllocated(cs, i + 1)

RECURSIVE PMU_alloc_counter_mutSupport(_, _)
PMU_alloc_counter_mutSupport(cs, i) ==
    IF i > Len(cs) THEN 0
    ELSE IF ~cs[i].allocated THEN i
    ELSE PMU_alloc_counter_mutSupport(cs, i + 1)

RECURSIVE PMU_alloc_counter(_, _)
PMU_alloc_counter(cs, i) ==
    IF i > Len(cs) THEN 0
    ELSE IF cs[i].support_event /\ ~cs[i].allocated THEN i
    ELSE PMU_alloc_counter(cs, i + 1)

\* PMU._free_counter(counter)
PMU_free_counter_mutKeep(cs, c) == cs

PMU_free_counter(cs, c) == [cs EXCEPT ![c].allocated = FALSE]

\* PMU.enable_event(event_id): allocate, set_event, warn, enable, return
PMU_enable_event_mutExhausted(cs, rg, e, h) ==
    LET c == PMU_alloc_counter(cs, 1)
        allocd == [cs EXCEPT ![c].allocated = TRUE]
        bound == PMUCounter_set_event(allocd, c, e, h)
        enabled == PMUCounter_enable(bound.counters, rg, c)
    IN  IF c = 0
        THEN [counters |-> [i \in DOMAIN cs |-> [cs[i] EXCEPT !.value = rg[i]]],
              res |-> Raised("Exception"), hooks |-> << >>]
        ELSE IF ~bound.ret /\ e \notin PmuEvents
        THEN [counters |-> bound.counters, res |-> Raised("KeyError"),
              hooks |-> bound.hooks]
        ELSE [counters |-> enabled.counters, res |-> Returned("counter", c),
              hooks |-> bound.hooks \o enabled.hooks]

PMU_enable_event(cs, rg, e, h) ==
    LET c == PMU_alloc_counter(cs, 1)
        allocd == [cs EXCEPT ![c].allocated = TRUE]
        bound == PMUCounter_set_event(allocd, c, e, h)
        enabled == PMUCounter_enable(bound.counters, rg, c)
    IN  IF c = 0
        THEN [counters |-> cs, res |-> Raised("Exception"), hooks |-> << >>]
        ELSE IF ~bound.ret /\ e \notin PmuEvents
        THEN \* the warning's text indexes self.events[event_id]
             [counters |-> bound.counters, res |-> Raised("KeyError"),
              hooks |-> bound.hooks]
        ELSE [counters |-> enabled.counters, res |-> Returned("counter", c),
              hooks |-> bound.hooks \o enabled.hooks]

\* PMU.disable_event(counter): disable, set_event(None), free
PMU_disable_event_mutOrder(cs, c, h) ==
    LET unbound == PMUCounter_set_event(cs, c, None, h)
        disabled == PMUCounter_disable(unbound.counters, c)
    IN  [counters |-> PMU_free_counter(disabled, c),
         hooks |-> unbound.hooks \o <<"PMUCounter._disable">>]

PMU_disable_event(cs, c, h) ==
    LET disabled == PMUCounter_disable(cs, c)
        unbound == PMUCounter_set_event(disabled, c, None, h)
    IN  [counters |-> PMU_free_counter(unbound.counters, c),
         hooks |-> <<"PMUCounter._disable">> \o unbound.hooks]

\* the allocated flags of the counters, in scan order
AllocatedFlags(cs) == [c \in DOMAIN cs |-> cs[c].allocated]

\* one more allocation attempt in a run that has not freed anything yet
Attempted(n) == IF n < 0 THEN -1 ELSE IF n <= NCounters THEN n + 1 ELSE n

\* a caller calls counter.set_event(e)
SetEvent(c, e) ==
    \E h \in BOOLEAN :
        LET r == PMUCounter_set_event(counters, c, e, h)
        IN  /\ counters' = r.counters
            /\ op' = Call("PMUCounter.set_event", c, e, FALSE, 0)
            /\ res' = Returned(PyBool(r.ret), 0)
            /\ trace' = r.hooks
            /\ snap' = << >>
            /\ UNCHANGED <<reg, streak, pmuVars, perfVars, handles>>

\* a caller calls counter.enable()
CounterEnable(c) ==
    LET r == PMUCounter_enable(counters, reg, c)
    IN  /\ counters' = r.counters
        /\ op' = Call("PMUCounter.enable", c, None, FALSE, 0)
        /\ res' = Returned(r.ret, 0)
        /\ trace' = r.hooks
        /\ snap' = << >>
        /\ UNCHANGED <<reg, streak, pmuVars, perfVars, handles>>

\* a caller calls counter.disable()
CounterDisable(c) ==
    /\ counters' = PMUCounter_disable(counters, c)
    /\ op' = Call("PMUCounter.disable", c, None, FALSE, 0)
    /\ res' = Returned("None", 0)
    /\ trace' = <<"PMUCounter._disable">>
    /\ snap' = << >>
    /\ UNCHANGED <<reg, streak, pmuVars, perfVars, handles>>

\* a caller calls counter.read_diff()
ReadDiff(c) ==
    /\ counters' = [counters EXCEPT ![c].value = reg[c]]
    /\ op' = Call("PMUCounter.read_diff", c, None, FALSE, 0)
    /\ res' = ReturnedInt(PMUCounter_read_diff(counters[c].value, reg[c], RegWidth))
    /\ trace' = << >>
    /\ snap' = << >>
    /\ UNCHANGED <<reg, streak, pmuVars, perfVars, handles>>

\* the hardware counts: the register of counter c now reads v
RegisterWrite(c, v) ==
    /\ reg' = [reg EXCEPT ![c] = v]
    /\ op' = Call("register.write", c, None, FALSE, 0)
    /\ res' = Returned("None", 0)
    /\ trace' = << >>
    /\ snap' = << >>
    /\ UNCHANGED <<counters, streak, pmuVars, perfVars, handles>>

\* a caller calls pmu.enable_event(e) and keeps the counter it returns
HandleEnableEvent(e) ==
    \E h \in BOOLEAN :
        LET r == PMU_enable_event(counters, reg, e, h)
        IN  /\ counters' = r.counters
            /\ handles' = IF r.res.exc = "none"
                          THEN [handles EXCEPT ![r.res.counter] = @ + 1]
                          ELSE handles
            /\ op' = Call("PMU.enable_event", 0, e, FALSE, 0)
            /\ res' = r.res
            /\ trace' = r.hooks
            /\ snap' = << >>
            /\ UNCHANGED <<reg, streak, pmuVars, perfVars>>

\* a caller calls pmu.disable_event(c) on a counter it got from enable_event
\* and has not given back yet
HandleDisableEvent(c) ==
    \E h \in BOOLEAN :
        LET r == PMU_disable_event(counters, c, h)
        IN  /\ handles[c] > 0
            /\ counters' = r.counters
            /\ handles' = [handles EXCEPT ![c] = @ - 1]
            /\ op' = Call("PMU.disable_event", c, None, FALSE, 0)
            /\ res' = Returned("None", 0)
            /\ trace' = r.hooks
            /\ snap' = << >>
            /\ UNCHANGED <<reg, streak, pmuVars, perfVars>>

\* PMUCounter.read(): int(self.register)
PMUCounter_read(rg, c) == ReturnedInt(rg[c])

\* PMU.read(counter_name): what get_counter(counter_name) returns
PMU_read(cs, c) == Returned("counter", c)

\* a caller calls counter.read()
CounterRead(c) ==
    /\ op' = Call("PMUCounter.read", c, None, FALSE, 0)
    /\ res' = PMUCounter_read(reg, c)
    /\ trace' = << >>
    /\ snap' = << >>
    /\ UNCHANGED <<counters, reg, streak, pmuVars, perfVars, handles>>

\* a caller calls pmu.read(name), name being the one counter c is registered under
PMURead(c) ==
    /\ op' = Call("PMU.read", c, None, FALSE, 0)
    /\ res' = PMU_read(counters, c)
    /\ trace' = << >>
    /\ snap' = << >>
    /\ UNCHANGED <<counters, reg, streak, pmuVars, perfVars, handles>>

\* a caller calls pmu._alloc_counter()
AllocCounter ==
    LET c == PMU_alloc_counter(counters, 1)
    IN  /\ counters' = IF c = 0 THEN counters
                       ELSE [counters EXCEPT ![c].allocated = TRUE]
        /\ op' = Call("PMU._alloc_counter", 0, None, FALSE, 0)
        /\ res' = IF c = 0 THEN Raised("Exception") ELSE Returned("counter", c)
        /\ trace' = << >>
        /\ snap' = IF c = 0 THEN << >> ELSE AllocatedFlags(counters)
        /\ streak' = Attempted(streak)
        /\ UNCHANGED <<reg, pmuVars, perfVars, handles>>

\* a caller calls pmu._free_counter(counter)
FreeCounter(c) ==
    /\ counters' = PMU_free_counter(counters, c)
    /\ op' = Call("PMU._free_counter", c, None, FALSE, 0)
    /\ res' = Returned("None", 0)
    /\ trace' = << >>
    /\ snap' = IF op.name = "PMU._alloc_counter" /\ res.counter = c
               THEN snap ELSE << >>
    /\ streak' = -1
    /\ UNCHANGED <<reg, pmuVars, perfVars, handles>>

\* a caller calls pmu.enable_event(e)
EnableEvent(e) ==
    \E h \in BOOLEAN :
        LET r == PMU_enable_event(counters, reg, e, h)
        IN  /\ counters' = r.counters
            /\ op' = Call("PMU.enable_event", 0, e, FALSE, 0)
            /\ res' = r.res
            /\ trace' = r.hooks
            /\ snap' = << >>
            /\ streak' = Attempted(streak)
            /\ UNCHANGED <<reg, pmuVars, perfVars, handles>>

\* a caller calls pmu.disable_event(counter)
DisableEvent(c) ==
    \E h \in BOOLEAN :
        LET r == PMU_disable_event(counters, c, h)
        IN  /\ counters' = r.counters
            /\ op' = Call("PMU.disable_event", c, None, FALSE, 0)
            /\ res' = Returned("None", 0)
            /\ trace' = r.hooks
            /\ snap' = << >>
            /\ streak' = -1
            /\ UNCHANGED <<reg, pmuVars, perfVars, handles>>

(* ------------------------------- Perf ----------------------------------- *)
\* Perf.CPU_LOAD, Perf.MEMORY_LOAD, Perf.VENDOR
CPU_LOAD == 1
MEMORY_LOAD == 2
VENDOR == 4096

\* device.pmus, in iteration order; a PMU is named by its position
PmuNames == <<"test", "test2">>
Pmus == 1 .. Len(PmuNames)
\* event_name = None
NoName == "None"
\* the names given to PerfEvents of the well-known types
EventNames == {"test1", "test2"}
\* the vendor ids of VendorEvents, and "CPU {} {}".format(0, vendor_id)
VendorIds == {1, 2}
VendorName(vendor_id) == IF vendor_id = 1 THEN "CPU 0 1" ELSE "CPU 0 2"
\* the event types and names callers ask for
QueryTypes == {None, CPU_LOAD, MEMORY_LOAD, 3, VENDOR, VENDOR + 1, VENDOR + 2}
QueryNames == {NoName, "test1", "test2", "CPU 0 1"}

\* a Python dict is the sequence of its items [k, v] in insertion order
DictHas(d, k) == \E i \in DOMAIN d : d[i].k = k
DictGet(d, k) == d[CHOOSE i \in DOMAIN d : d[i].k = k].v
DictSet(d, k, v) ==
    IF DictHas(d, k)
    THEN [i \in DOMAIN d |-> IF d[i].k = k THEN [k |-> k, v |-> v] ELSE d[i]]
    ELSE Append(d, [k |-> k, v |-> v])
DictValues(d) == [i \in DOMAIN d |-> d[i].v]
RECURSIVE DictUpdate(_, _)
DictUpdate(d, other) ==
    IF other = << >> THEN d
    ELSE DictUpdate(DictSet(d, Head(other).k, Head(other).v), Tail(other))
\* d.get(k, {})
DictGetOrEmpty(d, k) == IF DictHas(d, k) THEN DictGet(d, k) ELSE << >>

\* a PerfEvent object of class cls; vendor_id is None unless it is a VendorEvent
PerfEvent(cls, pmu, event_type, name, vendor_id) ==
    [cls |-> cls, pmu |-> pmu, event_type |-> event_type, name |-> name,
     vendor_id |-> vendor_id]

\* PerfEvent.__init__: the event registers itself into pmu.perf_events
PerfEvent_init(pe, cls, pmu, event_type, name, vendor_id) ==
    [pe EXCEPT ![pmu] =
        DictSet(@, event_type,
                DictSet(DictGetOrEmpty(@, event_type), name,
                        PerfEvent(cls, pmu, event_type, name, vendor_id)))]

\* the number of PerfEvents the PMUs hold
RECURSIVE DictSize(_)
DictSize(d) == IF d = << >> THEN 0 ELSE Len(Head(d).v) + DictSize(Tail(d))
RECURSIVE Registered(_, _)
Registered(pe, i) == IF i > Len(pe) THEN 0 ELSE DictSize(pe[i]) + Registered(pe, i + 1)

\* Perf.__init__: the inner loop over one PMU's perf_events
RECURSIVE Perf_init_pmu_mutFirstWins(_, _)
Perf_init_pmu_mutFirstWins(evs, d) ==
    IF d = << >> THEN evs
    ELSE Perf_init_pmu_mutFirstWins(
            DictSet(evs, Head(d).k,
                    DictUpdate(Head(d).v, DictGetOrEmpty(evs, Head(d).k))),
            Tail(d))

RECURSIVE Perf_init_pmu(_, _)
Perf_init_pmu(evs, d) ==
    IF d = << >> THEN evs
    ELSE Perf_init_pmu(
            DictSet(evs, Head(d).k,
                    DictUpdate(DictGetOrEmpty(evs, Head(d).k), Head(d).v)),
            Tail(d))

\* Perf.__init__: the loop over device.pmus, from the i-th PMU on
RECURSIVE Perf_init_from(_, _, _)
Perf_init_from(evs, pe, i) ==
    IF i > Len(pe) THEN evs
    ELSE Perf_init_from(Perf_init_pmu(evs, pe[i]), pe, i + 1)

Perf_init(pe) == Perf_init_from(<< >>, pe, 1)

\* a call that returned the list evs of PerfEvents, and one that returned ev
ReturnedList(evs) == [exc |-> "none", ret |-> "list", counter |-> 0, events |-> evs]
ReturnedEvent(ev) == [exc |-> "none", ret |-> "event", counter |-> 0, event |-> ev]

\* Perf.get_events, the branch event_type <= VENDOR: self.events[event_type].values()
Perf_get_events_key(evs, event_type) ==
    IF DictHas(evs, event_type)
    THEN ReturnedList(DictValues(DictGet(evs, event_type)))
    ELSE Raised("KeyError")

\* Perf.get_vendor_events(event_id): get_events(VENDOR) takes the branch above
Perf_get_vendor_events(evs, event_id) ==
    LET r == Perf_get_events_key(evs, VENDOR)
    IN  IF r.exc # "none" THEN r
        ELSE ReturnedList(SelectSeq(r.events, LAMBDA ev : ev.vendor_id = event_id))

\* Perf.get_events, event_type = None: every bucket in insertion order
RECURSIVE Perf_get_events_all(_)
Perf_get_events_all(evs) ==
    IF evs = << >> THEN << >>
    ELSE DictValues(Head(evs).v) \o Perf_get_events_all(Tail(evs))

\* Perf.get_events(event_type)
Perf_get_events(evs, event_type) ==
    IF event_type # None
    THEN IF event_type <= VENDOR
         THEN Perf_get_events_key(evs, event_type)
         ELSE Perf_get_vendor_events(evs, event_type - VENDOR)
    ELSE ReturnedList(Perf_get_events_all(evs))

\* Perf.get(event_type, event_name); "not x" holds of None and of 0
Perf_get(evs, event_type, event_name) ==
    IF (event_type = None \/ event_type = 0) /\ event_name = NoName
    THEN Returned("None", 0)
    ELSE LET r == Perf_get_events(evs, event_type)
             found == IF r.exc = "none"
                      THEN SelectSeq(r.events, LAMBDA ev : ev.name = event_name)
                      ELSE << >>
         IN  IF r.exc # "none" THEN r
             ELSE IF found = << >> THEN Returned("None", 0)
             ELSE ReturnedEvent(Head(found))

\* what event.get_value() gives when the registers read rg: TestPerfEvent
\* divides the reading of TESTA by that of TESTB, the other classes inherit
\* PerfEvent.get_value
ReturnedValue(ev, rg) ==
    [exc |-> "none", ret |-> "value", counter |-> 0, event |-> ev,
     dividend |-> rg[1], divisor |-> rg[2]]

PerfEvent_get_value(ev, rg) ==
    IF ev.cls = "TestPerfEvent"
    THEN ReturnedValue(ev, rg)
    ELSE Raised("NotImplementedError")

\* Perf.get_value(event_type, event_name)
Perf_get_value(evs, rg, event_type, event_name) ==
    LET r == Perf_get(evs, event_type, event_name)
    IN  IF r.exc # "none" THEN r
        ELSE IF r.ret # "event" THEN Raised("ValueError")
        ELSE PerfEvent_get_value(r.event, rg)

\* Perf.event_types: id -> PerfEventType (its name)
event_types ==
    <<[k |-> CPU_LOAD, v |-> "CPU load"], [k |-> MEMORY_LOAD, v |-> "Memory load"],
      [k |-> VENDOR, v |-> "Vendor event"]>>

\* a call that returned the PerfEventType named n
ReturnedType(n) == [exc |-> "none", ret |-> "type", counter |-> 0, type |-> n]

\* Perf.get_event_type(event_type); None > VENDOR is a TypeError
Perf_get_event_type(event_type) ==
    IF event_type = None THEN Raised("TypeError")
    ELSE LET k == IF event_type > VENDOR THEN VENDOR ELSE event_type
         IN  IF DictHas(event_types, k)
             THEN ReturnedType(DictGet(event_types, k))
             ELSE Raised("KeyError")

\* a call on a PerfEvent class or on the Perf object, with its arguments
PerfCall(name, pmu, event_type, event_name) ==
    [name |-> name, pmu |-> pmu, event_type |-> event_type, event_name |-> event_name]

\* PerfEvent(pmu, event_type, name) is constructed
NewPerfEvent(pmu, event_type, name) ==
    /\ Registered(perf_events, 1) < MaxEvents
    /\ perf_events' = PerfEvent_init(perf_events, "PerfEvent", pmu, event_type,
                                     name, None)
    /\ op' = PerfCall("PerfEvent.__init__", pmu, event_type, name)
    /\ res' = Returned("None", 0)
    /\ trace' = << >>
    /\ UNCHANGED <<events, pmuVars, poolVars>>

\* TestPerfEvent(pmu, event_type, name) is constructed
NewTestPerfEvent(pmu, event_type, name) ==
    /\ Registered(perf_events, 1) < MaxEvents
    /\ perf_events' = PerfEvent_init(perf_events, "TestPerfEvent", pmu, event_type,
                                     name, None)
    /\ op' = PerfCall("TestPerfEvent.__init__", pmu, event_type, name)
    /\ res' = Returned("None", 0)
    /\ trace' = << >>
    /\ UNCHANGED <<events, pmuVars, poolVars>>

\* VendorEvent(pmu, 0, vendor_id) is constructed
NewVendorEvent(pmu, vendor_id) ==
    /\ Registered(perf_events, 1) < MaxEvents
    /\ perf_events' = PerfEvent_init(perf_events, "VendorEvent", pmu, VENDOR,
                                     VendorName(vendor_id), vendor_id)
    /\ op' = PerfCall("VendorEvent.__init__", pmu, VENDOR, VendorName(vendor_id))
    /\ res' = Returned("None", 0)
    /\ trace' = << >>
    /\ UNCHANGED <<events, pmuVars, poolVars>>

\* Perf(device) is constructed: the registry is rebuilt from the PMUs
NewPerf ==
    /\ events' = Perf_init(perf_events)
    /\ op' = PerfCall("Perf.__init__", 0, None, NoName)
    /\ res' = Returned("None", 0)
    /\ trace' = << >>
    /\ UNCHANGED <<perf_events, pmuVars, poolVars>>

\* a caller calls perf.get_events(event_type)
GetEvents(event_type) ==
    /\ op' = PerfCall("Perf.get_events", 0, event_type, NoName)
    /\ res' = Perf_get_events(events, event_type)
    /\ trace' = << >>
    /\ UNCHANGED <<perfVars, pmuVars, poolVars>>

\* a caller calls perf.get(event_type, event_name)
Get(event_type, event_name) ==
    /\ op' = PerfCall("Perf.get", 0, event_type, event_name)
    /\ res' = Perf_get(events, event_type, event_name)
    /\ trace' = << >>
    /\ UNCHANGED <<perfVars, pmuVars, poolVars>>

\* a caller calls perf.get_value(event_type, event_name)
GetValue(event_type, event_name) ==
    /\ op' = PerfCall("Perf.get_value", 0, event_type, event_name)
    /\ res' = Perf_get_value(events, reg, event_type, event_name)
    /\ trace' = << >>
    /\ UNCHANGED <<perfVars, pmuVars, poolVars>>

\* a caller calls perf.get_event_type(event_type)
GetEventType(event_type) ==
    /\ op' = PerfCall("Perf.get_event_type", 0, event_type, NoName)
    /\ res' = Perf_get_event_type(event_type)
    /\ trace' = << >>
    /\ UNCHANGED <<perfVars, pmuVars, poolVars>>

(* ------------------------------ Init ----------------------------------- *)
\* PMUCounter.__init__ for a counter whose support_event is s
NewCounter(s) ==
    [support_event |-> s, allocated |-> FALSE, event_id |-> None,
     value |-> 0, en |-> FALSE]

\* PMU.__init__, then one PMUCounter per register; the registers start at
\* a common raw value
Init ==
    /\ refcount = 0
    /\ en = FALSE
    /\ \E s \in [Counters -> BOOLEAN] : counters = [c \in Counters |-> NewCounter(s[c])]
    /\ \E v \in RegValues : reg = [c \in Counters |-> v]
    /\ held = [p \in PerfEvents |-> 0]
    /\ balance = 0
    /\ spans = 0
    /\ enCount = 0
    /\ disCount = 0
    /\ calls = 0
    /\ op = Call("__init__", 0, None, FALSE, 0)
    /\ res = Returned("None", 0)
    /\ trace = << >>
    /\ streak = 0
    /\ snap = << >>
    /\ handles = [c \in Counters |-> 0]
    /\ perf_events = [i \in Pmus |-> << >>]
    /\ events = Perf_init(perf_events)

(* ------------------- PMU.enable / PMU.disable, any calls ---------------- *)
NextPMU ==
    \E flag \in BOOLEAN :
        \/ PMUEnable(flag)
        \/ PMUDisable(flag)

SpecPMU == Init /\ [][NextPMU]_vars

(* ------------- refcounted calls only, never more disables --------------- *)
EnableRef == PMUEnable(TRUE)

DisableRef == balance > 0 /\ PMUDisable(TRUE)

NextRef == EnableRef \/ DisableRef

SpecRef == Init /\ [][NextRef]_vars

(* ---------- PerfEvents sharing the PMU, disable only after enable ------- *)
NextPerf ==
    \E p \in PerfEvents :
        \/ PerfEventEnable(p)
        \/ held[p] > 0 /\ PerfEventDisable(p)

SpecPerf == Init /\ [][NextPerf]_vars

(* ------------- the counters of one PMU and its counter pool ------------- *)
Next ==
    \/ \E c \in Counters, e \in EventIds : SetEvent(c, e)
    \/ \E c \in Counters : CounterEnable(c)
    \/ \E c \in Counters : CounterDisable(c)
    \/ AllocCounter
    \/ \E c \in Counters : FreeCounter(c)
    \/ \E e \in EventIds : EnableEvent(e)
    \/ \E c \in Counters : DisableEvent(c)

Spec == Init /\ [][Next]_vars

(* ------ one counter and its register (counters do not touch each other) -- *)
NextCounter ==
    \E c \in {d \in Counters : \A o \in Counters : d <= o} :
        \/ \E v \in RegValues : RegisterWrite(c, v)
        \/ ReadDiff(c)
        \/ \E e \in EventIds : SetEvent(c, e)
        \/ CounterEnable(c)
        \/ CounterDisable(c)

SpecCounter == Init /\ [][NextCounter]_vars

(* ------------- a PMU of the base class: no architecture hooks ----------- *)
\* what a call that reaches a hook of the base class gives: PMU._enable,
\* PMU._disable, PMU.pause, PMU.resume and PMU.reset raise NotImplementedError
NotImplemented(reached) ==
    IF reached THEN Raised("NotImplementedError") ELSE Returned("None", 0)

\* a caller calls enable(refcount=flag) on a PMU of the base class: the count
\* is changed before the hook raises
BaseEnable(flag) ==
    /\ calls < MaxCalls
    /\ calls' = calls + 1
    /\ refcount' = PMU_enable(refcount, flag).refcount
    /\ balance' = IF flag THEN balance + 1 ELSE balance
    /\ spans' = IF flag /\ balance = 0 THEN spans + 1 ELSE spans
    /\ op' = Call("PMU.enable", 0, None, flag, 0)
    /\ res' = NotImplemented(PMU_enable(refcount, flag).hook)
    /\ trace' = PMUEnableTrace(flag)
    /\ UNCHANGED <<en, enCount, disCount, held, poolVars, perfVars>>

\* a caller calls disable(refcount=flag) on a PMU of the base class
BaseDisable(flag) ==
    /\ calls < MaxCalls
    /\ calls' = calls + 1
    /\ refcount' = PMU_disable(refcount, flag).refcount
    /\ balance' = IF flag THEN balance - 1 ELSE balance
    /\ op' = Call("PMU.disable", 0, None, flag, 0)
    /\ res' = NotImplemented(PMU_disable(refcount, flag).hook)
    /\ trace' = PMUDisableTrace(flag)
    /\ UNCHANGED <<en, enCount, disCount, spans, held, poolVars, perfVars>>

\* a caller calls pause(), resume() or reset() on a PMU of the base class
BaseControl(name) ==
    /\ op' = Call(name, 0, None, FALSE, 0)
    /\ res' = NotImplemented(TRUE)
    /\ trace' = << >>
    /\ UNCHANGED <<pmuVars, poolVars, perfVars>>

\* PMU.enable_event(event_id) when the counters are of the base class
\* PMUCounter: set_event calls enabled(), whose hook _enabled raises
PMU_enable_event_base_mutRollback(cs, e) ==
    LET c == PMU_alloc_counter(cs, 1)
    IN  IF c = 0
        THEN [counters |-> cs, res |-> Raised("Exception"), hooks |-> << >>]
        ELSE [counters |-> cs, res |-> NotImplemented(TRUE),
              hooks |-> <<"PMUCounter._enabled">>]

PMU_enable_event_base(cs, e) ==
    LET c == PMU_alloc_counter(cs, 1)
    IN  IF c = 0
        THEN [counters |-> cs, res |-> Raised("Exception"), hooks |-> << >>]
        ELSE [counters |-> [cs EXCEPT ![c].allocated = TRUE],
              res |-> NotImplemented(TRUE), hooks |-> <<"PMUCounter._enabled">>]

\* a caller calls pmu.enable_event(e), the counters being of the base class
BaseEnableEvent(e) ==
    LET r == PMU_enable_event_base(counters, e)
    IN  /\ counters' = r.counters
        /\ op' = Call("PMU.enable_event", 0, e, FALSE, 0)
        /\ res' = r.res
        /\ trace' = r.hooks
        /\ snap' = << >>
        /\ UNCHANGED <<reg, streak, pmuVars, perfVars, handles>>

NextBase ==
    \/ \E flag \in BOOLEAN : BaseEnable(flag)
    \/ \E flag \in BOOLEAN : BaseDisable(flag)
    \/ \E name \in {"PMU.pause", "PMU.resume", "PMU.reset"} : BaseControl(name)

SpecBase == Init /\ [][NextBase]_vars

(* ------- the Perf registry of a device whose PMUs hold PerfEvents -------- *)
\* the PMUs are TestPMUs: their counters are plain PMUCounters, registers at 0
InitPerf ==
    /\ Init
    /\ \A c \in Counters : ~counters[c].support_event
    /\ \A c \in Counters : reg[c] = 0

NextPerfRegistry ==
    \/ \E pmu \in Pmus, t \in {CPU_LOAD, MEMORY_LOAD}, n \in EventNames :
            NewPerfEvent(pmu, t, n)
    \/ \E pmu \in Pmus, v \in VendorIds : NewVendorEvent(pmu, v)
    \/ NewPerf
    \/ \E t \in QueryTypes : GetEvents(t)
    \/ \E t \in QueryTypes, n \in QueryNames : Get(t, n)

SpecPerfRegistry == InitPerf /\ [][NextPerfRegistry]_vars

(* ---------- the values of the events the registry resolves to ----------- *)
NextPerfValue ==
    \/ \E pmu \in Pmus, n \in EventNames : NewTestPerfEvent(pmu, CPU_LOAD, n)
    \/ \E pmu \in Pmus, t \in {CPU_LOAD, MEMORY_LOAD}, n \in EventNames :
            NewPerfEvent(pmu, t, n)
    \/ NewPerf
    \/ \E t \in QueryTypes, n \in QueryNames : GetValue(t, n)

SpecPerfValue == InitPerf /\ [][NextPerfValue]_vars

(* ------------------ vendor events and vendor type ids ------------------- *)
NextPerfVendor ==
    \/ \E pmu \in Pmus, v \in VendorIds : NewVendorEvent(pmu, v)
    \/ \E pmu \in Pmus, n \in EventNames : NewPerfEvent(pmu, CPU_LOAD, n)
    \/ NewPerf
    \/ \E t \in QueryTypes : GetEvents(t)
    \/ \E t \in QueryTypes : GetEventType(t)

SpecPerfVendor == InitPerf /\ [][NextPerfVendor]_vars

(* ------------------- reading the counters of a PMU ---------------------- *)
NextRead ==
    \E c \in Counters :
        \/ \E v \in RegValues : RegisterWrite(c, v)
        \/ CounterRead(c)
        \/ PMURead(c)

SpecRead == Init /\ [][NextRead]_vars

(* ------- hooks that raise: a base-class PMU with base-class counters ----- *)
NextRaising ==
    \/ \E flag \in BOOLEAN : BaseEnable(flag)
    \/ \E flag \in BOOLEAN : BaseDisable(flag)
    \/ \E e \in EventIds : BaseEnableEvent(e)

SpecRaising == Init /\ [][NextRaising]_vars

(* ---- enable_event / disable_event, each counter given back at most once -- *)
NextHandles ==
    \/ \E e \in EventIds : HandleEnableEvent(e)
    \/ \E c \in Counters : HandleDisableEvent(c)

SpecHandles == Init /\ [][NextHandles]_vars

(* ============================== claims ================================== *)

\* C1: in well-formed sequences of enable(refcount=True) / disable(refcount=True)
\* the hook _enable has run exactly once per span in which the call balance is
\* positive, and the hook _disable exactly once per span that has ended.
C1_HookOncePerSpan ==
    /\ enCount = spans
    /\ disCount = IF balance > 0 THEN spans - 1 ELSE spans

\* two spans have ended, one of them more than one call deep
C1_Witness ==
    /\ op.name = "PMU.disable"
    /\ balance = 0
    /\ spans = 2
    /\ disCount = 2
    /\ calls >= 6

\* C2: while some PerfEvent is enabled and not yet disabled the PMU is enabled,
\* and once no PerfEvent is, the PMU is disabled.
C2_SharedPMUStaysEnabled ==
    /\ (\E p \in PerfEvents : held[p] > 0) => en
    /\ (\A p \in PerfEvents : held[p] = 0) => ~en

\* one PerfEvent has just been disabled while another still holds the PMU
C2_Witness ==
    /\ op.name = "PerfEvent.disable"
    /\ held[op.perf] = 0
    /\ \E p \in PerfEvents : held[p] > 0
    /\ en

\* C3: refcount is never negative, whatever enable / disable calls are made.
C3_RefcountNonNegative == refcount >= 0

C5_UnconditionalCallsInvokeHook ==
    /\ (op.name = "PMU.enable" /\ ~op.refcount) => trace = <<"PMU._enable">>
    /\ (op.name = "PMU.disable" /\ ~op.refcount) => trace = <<"PMU._disable">>

C7_AllocFirstFree ==
    [][(op'.name \in {"PMU._alloc_counter", "PMU.enable_event"} /\ res'.exc = "none") =>
        LET c == res'.counter
        IN  /\ c \in Counters
            /\ counters[c].support_event
            /\ ~counters[c].allocated
            /\ \A j \in 1 .. (c - 1) :
                   ~(counters[j].support_event /\ ~counters[j].allocated)
            /\ counters'[c].allocated
            /\ \A d \in Counters \ {c} : counters'[d] = counters[d]
            /\ op'.name = "PMU._alloc_counter" =>
                   counters' = [counters EXCEPT ![c].allocated = TRUE]]_vars

\* the last counter was returned, all the earlier ones being taken or hard-wired
C7_Witness ==
    /\ op.name = "PMU._alloc_counter"
    /\ res.counter = NCounters
    /\ counters[1].support_event
    /\ counters[1].allocated

\* C8: _alloc_counter followed at once by _free_counter of the counter it
\* returned leaves every counter with the allocated flag it had before.
C8_AllocFreeRoundTrip ==
    (op.name = "PMU._free_counter" /\ snap # << >>) =>
        AllocatedFlags(counters) = snap

\* a round trip made while another counter was allocated
C8_Witness ==
    /\ op.name = "PMU._free_counter"
    /\ snap # << >>
    /\ \E c \in Counters : counters[c].allocated

\* C9: set_event on a counter that has support_event = False returns False,
\* changes no field of any counter and does not invoke the hook _set_event.
C9_NoEventSupport ==
    [][(op'.name = "PMUCounter.set_event" /\ ~counters[op'.counter].support_event) =>
        /\ res' = Returned("False", 0)
        /\ counters' = counters
        /\ trace' = << >>]_vars

\* an event of the PMU's table was refused by an enabled hard-wired counter
C9_Witness ==
    /\ op.name = "PMUCounter.set_event"
    /\ ~counters[op.counter].support_event
    /\ counters[op.counter].en
    /\ op.event \in PmuEvents
    /\ res.ret = "False"

\* C10: set_event on an event-capable counter that is enabled, or with an
\* event id that is neither None nor in pmu.events, returns False, keeps the
\* counter's event_id and does not invoke the hook _set_event.
C10_RejectEnabledOrUnknown ==
    [][(/\ op'.name = "PMUCounter.set_event"
        /\ counters[op'.counter].support_event
        /\ \/ counters[op'.counter].en
           \/ (op'.event # None /\ op'.event \notin PmuEvents)) =>
        /\ res' = Returned("False", 0)
        /\ counters' = counters
        /\ trace' = << >>]_vars

\* an enabled counter bound to an event refused to be unbound
C10_Witness ==
    /\ op.name = "PMUCounter.set_event"
    /\ counters[op.counter].support_event
    /\ counters[op.counter].en
    /\ counters[op.counter].event_id \in PmuEvents
    /\ op.event = None
    /\ res.ret = "False"

\* C11: when enable_event finds a free counter and binding the event to it
\* fails (set_event returns a false value), enable_event raises nothing,
\* returns that counter, and the counter is enabled.
C11_BindFailureNonFatal ==
    [][\A e \in EventIds, h \in BOOLEAN :
        LET c == PMU_alloc_counter(counters, 1)
            r == PMU_enable_event(counters, reg, e, h)
        IN  (/\ op'.name = "PMU.enable_event"
             /\ op'.event = e
             /\ c # 0
             /\ ~PMUCounter_set_event([counters EXCEPT ![c].allocated = TRUE],
                                      c, e, h).ret
             /\ counters' = r.counters
             /\ res' = r.res
             /\ trace' = r.hooks) =>
                (res' = Returned("counter", c) /\ counters'[c].en)]_vars

\* C12: after disable_event(counter), for a counter that enable_event can
\* return (an event-capable one), the counter is disabled, has no event, is
\* not allocated, and a following allocation scan finds a counter.
C12_DisableEventReleases ==
    (op.name = "PMU.disable_event" /\ counters[op.counter].support_event) =>
        /\ ~counters[op.counter].en
        /\ counters[op.counter].event_id = None
        /\ ~counters[op.counter].allocated
        /\ PMU_alloc_counter(counters, 1) \in 1 .. op.counter

\* a counter that had been enabled on an event was released
C12_Witness ==
    /\ op.name = "PMU.disable_event"
    /\ counters[op.counter].support_event
    /\ counters[op.counter].value # 0
    /\ trace = <<"PMUCounter._disable", "PMUCounter._set_event">>
    /\ ~counters[op.counter].allocated

\* C13 as stated: in every state reachable by the counter and pool operations,
\* a counter that has an event is allocated.
C13_EventImpliesAllocated ==
    \A c \in Counters : counters[c].event_id # None => counters[c].allocated

\* C13 as amended: it holds after construction, and every operation other than
\* a direct set_event or a direct _free_counter keeps it.
C13_PoolProtocolKeepsIt ==
    /\ C13_EventImpliesAllocated
    /\ [][(/\ op'.name \in {"PMUCounter.enable", "PMUCounter.disable",
                            "PMU._alloc_counter", "PMU.enable_event",
                            "PMU.disable_event"}
           /\ C13_EventImpliesAllocated) => C13_EventImpliesAllocated']_vars

\* enable_event has bound an event to the counter it took
C13_Witness ==
    /\ op.name = "PMU.enable_event"
    /\ res.exc = "none"
    /\ counters[res.counter].event_id \in PmuEvents
    /\ counters[res.counter].allocated
    /\ C13_EventImpliesAllocated

\* C14: a counter with support_event = False never has an event and is never
\* allocated.
C14_HardWiredUntouched ==
    \A c \in Counters :
        ~counters[c].support_event =>
            (counters[c].event_id = None /\ ~counters[c].allocated)

\* the pool is exhausted while a hard-wired counter stays out of it
C14_Witness ==
    /\ op.name = "PMU._alloc_counter"
    /\ res.exc = "Exception"
    /\ \E c \in Counters : ~counters[c].support_event /\ counters[c].en
    /\ \E c \in Counters : counters[c].support_event /\ counters[c].allocated

\* C15: read_diff returns current - last when current >= last and
\* current + 2^W - last when current < last, that is (current - last) mod 2^W
\* (16 for last 250, current 10, W 8), and leaves current as the last value.
C15_ReadDiffOverflow ==
    /\ PMUCounter_read_diff(250, 10, 8) = 16
    /\ [][op'.name = "PMUCounter.read_diff" =>
            LET last == counters[op'.counter].value
                current == reg[op'.counter]
            IN  /\ res'.exc = "none"
                /\ current >= last => res'.value = current - last
                /\ current < last => res'.value = (current + 2 ^ RegWidth) - last
                /\ res'.value = (current - last) % (2 ^ RegWidth)
                /\ counters'[op'.counter].value = current]_vars

\* the register had wrapped: the difference exceeds the current reading
C15_Witness ==
    /\ op.name = "PMUCounter.read_diff"
    /\ res.value > reg[op.counter]
    /\ counters[op.counter].value = reg[op.counter]

\* C16: enable() on an event-capable counter without an event returns False,
\* invokes no hook and changes nothing; any other enable() stores the current
\* register reading as the last value and invokes the hook _enable.
C16_EnableNeedsEvent ==
    [][op'.name = "PMUCounter.enable" =>
        LET c == op'.counter
        IN  IF counters[c].support_event /\ counters[c].event_id = None
            THEN /\ res' = Returned("False", 0)
                 /\ trace' = << >>
                 /\ counters' = counters
            ELSE /\ res'.ret # "False"
                 /\ trace' = <<"PMUCounter._enable">>
                 /\ counters' = [counters EXCEPT ![c].value = reg[c],
                                                 ![c].en = TRUE]]_vars

\* an unbound event-capable counter refused to start and kept its last value
C16_Witness ==
    /\ op.name = "PMUCounter.enable"
    /\ counters[op.counter].support_event
    /\ counters[op.counter].event_id = None
    /\ res.ret = "False"
    /\ ~counters[op.counter].en
    /\ counters[op.counter].value # reg[op.counter]

\* C18 (as stated): both PerfEvent.enable() and PerfEvent.disable() call the
\* event's own hook first and only then the refcounted PMU call.
C18_OwnHookFirst ==
    /\ op.name = "PerfEvent.enable" =>
          (trace[1] = "PerfEvent._enable" /\ trace[2] = "PMU.enable")
    /\ op.name = "PerfEvent.disable" =>
          (trace[1] = "PerfEvent._disable" /\ trace[2] = "PMU.disable")

\* C18 (amended): enable() calls the event's own hook _enable first and then
\* refcount-enables the PMU; disable() refcount-disables the PMU first, the
\* PMU hook _disable included, and calls the event's own hook _disable last.
C18_DisableMirrorsEnable ==
    /\ op.name = "PerfEvent.enable" =>
          /\ trace[1] = "PerfEvent._enable"
          /\ trace[2] = "PMU.enable"
          /\ \A i \in 2 .. Len(trace) : trace[i] # "PerfEvent._enable"
    /\ op.name = "PerfEvent.disable" =>
          /\ trace[1] = "PMU.disable"
          /\ trace[Len(trace)] = "PerfEvent._disable"
          /\ \A i \in 1 .. Len(trace) - 1 : trace[i] # "PerfEvent._disable"

\* the last holder disabled: the PMU was switched off before the event's hook ran
C18_Witness ==
    /\ op.name = "PerfEvent.disable"
    /\ trace = <<"PMU.disable", "PMU._disable", "PerfEvent._disable">>
    /\ refcount = 0
    /\ ~en

\* C17: on a PMU of the base class each of enable(), disable(), pause(),
\* resume() and reset() fails with NotImplementedError, whatever the refcount.
C17_UnimplementedAlwaysFails ==
    (/\ op.name \in {"PMU.enable", "PMU.disable", "PMU.pause", "PMU.resume", "PMU.reset"}
     /\ ~op.refcount) =>
        res.exc = "NotImplementedError"

\* C19: get_events(type) with a type that is unknown, or for which the
\* registry holds no bucket, returns an empty sequence and raises no error.
C19_AbsentBucketGivesEmpty ==
    (/\ op.name = "Perf.get_events"
     /\ op.event_type # None
     /\ ~DictHas(events, IF op.event_type <= VENDOR THEN op.event_type ELSE VENDOR)) =>
        res = ReturnedList(<< >>)

\* C20: get(type, name) returns None when type and name are both absent;
\* otherwise it returns an event named name of the bucket the type selects
\* (of any bucket when the type is absent), and None, without raising, when
\* there is no such event.
C20_GetReturnsMatchOrNone ==
    op.name = "Perf.get" =>
        LET t == op.event_type
            all == UNION {{DictGet(events, k)[i].v : i \in DOMAIN DictGet(events, k)} :
                            k \in {events[j].k : j \in DOMAIN events}}
            selected == IF t = None THEN all
                        ELSE IF t <= VENDOR THEN {ev \in all : ev.event_type = t}
                        ELSE {ev \in all : ev.event_type = VENDOR /\ ev.vendor_id = t - VENDOR}
            matches == {ev \in selected : ev.name = op.event_name}
        IN  IF t = None /\ op.event_name = NoName THEN res = Returned("None", 0)
            ELSE IF matches = {} THEN res = Returned("None", 0)
            ELSE res.exc = "none" /\ res.ret = "event" /\ res.event \in matches

\* C21: get_value(type, name) gives what get_value() of the event that
\* get(type, name) resolves to gives, and raises ValueError whenever no event
\* matches, a type without a bucket included.
C21_GetValueOrValueError ==
    op.name = "Perf.get_value" =>
        LET t == op.event_type
            g == Perf_get(events, t, op.event_name)
            all == UNION {{DictGet(events, k)[i].v : i \in DOMAIN DictGet(events, k)} :
                            k \in {events[j].k : j \in DOMAIN events}}
            selected == IF t = None THEN all
                        ELSE IF t <= VENDOR THEN {ev \in all : ev.event_type = t}
                        ELSE {ev \in all : ev.event_type = VENDOR /\ ev.vendor_id = t - VENDOR}
            matches == {ev \in selected : ev.name = op.event_name}
        IN  /\ matches = {} => res = Raised("ValueError")
            /\ (g.exc = "none" /\ g.ret = "event") =>
                    res = PerfEvent_get_value(g.event, reg)

\* C22: for an id above VENDOR, get_events(id) returns exactly the events of
\* the vendor bucket whose vendor_id is id - VENDOR and get_event_type(id)
\* returns the vendor event type; an id at or below VENDOR is a bucket key.
C22_VendorIdsRedirected ==
    /\ (op.name = "Perf.get_events" /\ op.event_type # None /\ op.event_type > VENDOR) =>
            res = ReturnedList(SelectSeq(DictValues(DictGetOrEmpty(events, VENDOR)),
                                         LAMBDA ev : ev.vendor_id = op.event_type - VENDOR))
    /\ (op.name = "Perf.get_event_type" /\ op.event_type # None /\ op.event_type > VENDOR) =>
            res = ReturnedType(DictGet(event_types, VENDOR))
    /\ (/\ op.name = "Perf.get_events" /\ op.event_type # None /\ op.event_type <= VENDOR
        /\ DictHas(events, op.event_type)) =>
            res = ReturnedList(DictValues(DictGet(events, op.event_type)))

\* C23: in the registry just built, every (type, name) pair some PMU holds is
\* present and maps to the event of the last PMU, in the iteration order of
\* device.pmus, that holds the pair; no other pair is present.
C23_LastPmuWins ==
    op.name = "Perf.__init__" =>
        \A t \in {CPU_LOAD, MEMORY_LOAD, VENDOR},
           n \in EventNames \cup {VendorName(v) : v \in VendorIds} :
            LET holders == {i \in Pmus : /\ DictHas(perf_events[i], t)
                                         /\ DictHas(DictGet(perf_events[i], t), n)}
                last == CHOOSE i \in holders : \A j \in holders : j <= i
                indexed == DictHas(events, t) /\ DictHas(DictGet(events, t), n)
            IN  IF holders = {} THEN ~indexed
                ELSE /\ indexed
                     /\ DictGet(DictGet(events, t), n)
                            = DictGet(DictGet(perf_events[last], t), n)

\* two PMUs hold the same pair and the registry holds the second PMU's event
C23_Witness ==
    /\ op.name = "Perf.__init__"
    /\ \E t \in {CPU_LOAD, MEMORY_LOAD, VENDOR},
          n \in EventNames \cup {VendorName(v) : v \in VendorIds} :
            /\ \A i \in Pmus : /\ DictHas(perf_events[i], t)
                               /\ DictHas(DictGet(perf_events[i], t), n)
            /\ DictHas(events, t)
            /\ DictHas(DictGet(events, t), n)
            /\ DictGet(DictGet(events, t), n).pmu = Len(PmuNames)

\* C24: PMU.read(counter_name) returns the current raw value of the register
\* behind the named counter, the number PMUCounter.read() returns.
C24_PMUReadReturnsValue ==
    op.name = "PMU.read" =>
        (res = PMUCounter_read(reg, op.counter) /\ res.ret = "int")

\* C25: when set_event passes its three checks and the hook _set_event
\* reports failure, event_id is set to the event all the same and set_event
\* returns the hook's false result.
C25_BindingRecordedOnHookFailure ==
    [][(/\ op'.name = "PMUCounter.set_event"
        /\ counters[op'.counter].support_event
        /\ ~counters[op'.counter].en
        /\ (op'.event = None \/ op'.event \in PmuEvents)) =>
            /\ trace' = <<"PMUCounter._set_event">>
            /\ counters'[op'.counter].event_id = op'.event
            /\ res'.exc = "none"
            /\ res'.ret \in {"True", "False"}]_vars

\* the hook failed on a schedulable event and the counter is bound to it
C25_Witness ==
    /\ op.name = "PMUCounter.set_event"
    /\ op.event \in PmuEvents
    /\ trace = <<"PMUCounter._set_event">>
    /\ res.ret = "False"
    /\ counters[op.counter].event_id = op.event

\* C26: when the hook raises in PMU.enable(refcount=True) the refcount stays
\* one higher than before the call and the PMU is not enabled; when a hook
\* raises in enable_event the counter taken from the pool stays allocated.
C26_NoRollback ==
    /\ [][(/\ op'.name = "PMU.enable" /\ op'.refcount
           /\ res'.exc = "NotImplementedError") =>
                (refcount' = refcount + 1 /\ ~en')]_vars
    /\ [][(op'.name = "PMU.enable_event" /\ res'.exc = "NotImplementedError") =>
                LET c == PMU_alloc_counter(counters, 1)
                IN  /\ c # 0
                    /\ counters' = [counters EXCEPT ![c].allocated = TRUE]]_vars

\* both hooks raised: the count is 1 on a disabled PMU and counter 1 is
\* allocated although it is neither bound nor enabled
C26_Witness ==
    /\ op.name = "PMU.enable_event"
    /\ res.exc = "NotImplementedError"
    /\ refcount = 1
    /\ ~en
    /\ \E c \in Counters : /\ counters[c].allocated
                           /\ counters[c].event_id = None
                           /\ ~counters[c].en

\* C27: under enable_event calls and disable_event calls on outstanding
\* handles only, no counter is held by two handles and the counters with
\* allocated = true are as many as the outstanding handles.
C27_PoolMutualExclusion ==
    /\ \A c \in Counters : handles[c] <= 1
    /\ Cardinality({c \in Counters : counters[c].allocated})
           = Cardinality({c \in Counters : handles[c] > 0})

\* C28: when _alloc_counter or enable_event fails with the exhaustion error
\* no counter changes its allocated flag, event_id, last value or enabled
\* state, and the refcount of the PMU is unchanged.
C28_ExhaustionChangesNothing ==
    [][(/\ op'.name \in {"PMU._alloc_counter", "PMU.enable_event"}
        /\ res'.exc = "Exception") =>
            /\ counters' = counters
            /\ refcount' = refcount
            /\ trace' = << >>]_vars

\* enable_event failed on a pool whose event-capable counters are all taken,
\* one of them bound to an event and counting
C28_Witness ==
    /\ op.name = "PMU.enable_event"
    /\ res.exc = "Exception"
    /\ \E c \in Counters : /\ counters[c].allocated
                           /\ counters[c].en
                           /\ counters[c].event_id \in PmuEvents

=============================================================================
